---------------------------- MODULE Spec2Model ----------------------------
(***************************************************************************)
(* A model of search_engines.py: the inverted-index builders, the query    *)
(* encoder, the posting-list merge of the two search engines, the cosine   *)
(* ranking, the heap-based top-k selection and the refinement re-ranking.  *)
(*                                                                         *)
(* Python dicts are functions (DOMAIN = the keys), Python lists are        *)
(* sequences (1-based here, 0-based in the source).  A Python float that   *)
(* the source obtains from math.log or math.sqrt is a fixed-point integer  *)
(* counting units of 1/LOG_SCALE; a score that the source halves and adds  *)
(* is a dyadic number [m, e] standing for m / 2^e, on which halving and    *)
(* adding are exact as they are on binary floats.  An uncaught Python      *)
(* exception ends the run with its name in the variable fault.             *)
(***************************************************************************)
EXTENDS Integers, Sequences, FiniteSets, TLC

VARIABLES
    files,          \* the encoded_files folder: document number -> dict_repr
    pc,             \* the statement the program is at
    pos,            \* position of the running loop in file_list (1-based)
    inverted_idx,   \* term -> list of documents
    inverted_idx2,  \* term -> list of <<document, tf or tfidf>>
    docs_count,     \* create_inverted_idx_2's counter
    todo,           \* keys of inverted_idx2 that the weighting loop has not visited
    squared_tfidfs, \* document -> sum of squared tfidf
    query,          \* the preprocessed query: a list of tokens
    encoded_query,  \* encode_query's return value
    selected_lists, \* the posting lists of the query's terms, one per occurrence
    idx,            \* one cursor per selected list (0-based, as in the source)
    iters,          \* iterations of the running merge loop so far
    result,         \* search_engine's result
    docs_scores,    \* search_engine_2's document -> summed tfidf
    ranked,         \* search_engine_2's return value
    lookups,        \* the terms whose posting list a search has read
    called,         \* the search engines the caller has called
    top_k,          \* search_engine_2's and get_top_k's parameter k
    all_scores,     \* the dict handed to get_top_k
    plot_result,    \* search_engine_3's top 10 of search_engine_2
    additional_info,\* search_engine_3's accepted input lines, split at ":"
    final_score,    \* search_engine_3's document -> adjusted score
    refined,        \* search_engine_3's return value
    fault           \* "none", or the exception that ended the run

buildVars == <<files, pos, inverted_idx, inverted_idx2, docs_count, todo, squared_tfidfs>>

artifacts == <<files, pos, inverted_idx, inverted_idx2, docs_count, todo, squared_tfidfs>>

searchVars == <<query, encoded_query, selected_lists, idx, iters, result, docs_scores,
                ranked, lookups, called, fault>>

rankVars == <<top_k, all_scores>>

refineVars == <<plot_result, additional_info, final_score, refined>>

vars == <<pc, buildVars, searchVars, rankVars, refineVars>>

-----------------------------------------------------------------------------
(* Bounds *)

(* documents of a corpus are numbered within 1..MaxDocs *)
MaxDocs == 3

(* raw term frequencies are within 1..MaxTf *)
MaxTf == 2

(* tokens of a query *)
MaxQueryLen == 2

(* posting lists handed to a bare merge: their number, the entries they    *)
(* hold together, and the range of their documents                         *)
MaxLists == 2

MaxPostings == 4

MaxListDoc == 2
MaxScored == 3
MaxScore == 2
MaxK == 4
MaxRefineDocs == 13
MaxInfo == 2

(* vocabulary.pickle: token -> term id *)
Vocabulary == ("cat" :> 1) @@ ("dog" :> 2)

Terms == {Vocabulary[w] : w \in DOMAIN Vocabulary}

(* what a query may hold: the vocabulary's tokens and one that is not in it *)
Tokens == DOMAIN Vocabulary \cup {"emu"}

-----------------------------------------------------------------------------
(* Numbers *)

(* Resolution of the fixed-point image of a float: 1 stands for 1/LOG_SCALE. *)
LOG_SCALE == 1000

RECURSIVE AtanhSeries(_, _, _)
(* sum of xp/k + xp*x2/(k+2) + ..., xp and x2 in units of 1/(10*LOG_SCALE) *)
AtanhSeries(xp, x2, k) ==
    IF xp = 0 THEN 0
    ELSE (xp \div k) + AtanhSeries((xp * x2) \div (10 * LOG_SCALE), x2, k + 2)

(* math.log(n / d) for integers n >= d >= 1, in units of 1/LOG_SCALE:      *)
(* ln(n/d) = 2 atanh((n - d)/(n + d)).  Exactly 0 when n = d, as           *)
(* math.log(1.0) is.                                                       *)
Log(n, d) ==
    LET x  == ((n - d) * 10 * LOG_SCALE) \div (n + d)
        x2 == (x * x) \div (10 * LOG_SCALE)
    IN  (2 * AtanhSeries(x, x2, 1) + 5) \div 10

RECURSIVE SqrtBetween(_, _, _)
SqrtBetween(n, lo, hi) ==
    IF lo >= hi THEN lo
    ELSE LET mid == (lo + hi + 1) \div 2
         IN  IF mid * mid <= n THEN SqrtBetween(n, mid, hi)
             ELSE SqrtBetween(n, lo, mid - 1)

(* math.sqrt on a value counted in units of 1/LOG_SCALE^2, the result in   *)
(* units of 1/LOG_SCALE; 0 exactly when the argument is 0.                 *)
Sqrt(n) == SqrtBetween(n, 0, 46340)

RECURSIVE Sum(_)
(* Python's sum() of a list *)
Sum(s) == IF s = <<>> THEN 0 ELSE Head(s) + Sum(Tail(s))

RECURSIVE SortedAscending(_)
(* sorted() of a set of integers *)
SortedAscending(S) ==
    IF S = {} THEN <<>>
    ELSE LET m == CHOOSE x \in S : \A y \in S : x <= y
         IN  <<m>> \o SortedAscending(S \ {m})

RECURSIVE SortedDescending(_)
SortedDescending(S) ==
    IF S = {} THEN <<>>
    ELSE LET m == CHOOSE x \in S : \A y \in S : x >= y
         IN  <<m>> \o SortedDescending(S \ {m})

Range(s) == {s[i] : i \in 1..Len(s)}

RECURSIVE Pow2(_)
Pow2(e) == IF e = 0 THEN 1 ELSE 2 * Pow2(e - 1)

RECURSIVE Reduced(_)
(* m / 2^e in lowest terms: one value, one record *)
Reduced(a) ==
    IF a.e > 0 /\ a.m % 2 = 0 THEN Reduced([m |-> a.m \div 2, e |-> a.e - 1]) ELSE a

(* the float of a fixed-point count *)
Float(n) == [m |-> n, e |-> 0]

(* The value itself, where its negation was meant. *)
Same(a) == a

(* -value *)
Negated(a) == [m |-> 0 - a.m, e |-> a.e]

(* a < b *)
Less(a, b) == a.m * Pow2(b.e) < b.m * Pow2(a.e)

(* a + b *)
Plus(a, b) ==
    LET e == IF a.e >= b.e THEN a.e ELSE b.e
    IN  Reduced([m |-> a.m * Pow2(e - a.e) + b.m * Pow2(e - b.e), e |-> e])

(* a * 1/2 *)
Half(a) == Reduced([m |-> a.m, e |-> a.e + 1])

-----------------------------------------------------------------------------
(* The corpus: one pickled dict_repr (term -> term frequency >= 1) per     *)
(* file <document number>.pickle of the encoded_files folder.              *)

DictReprs == UNION {[S -> 1..MaxTf] : S \in SUBSET Terms}

Folders == UNION {[S -> DictReprs] : S \in SUBSET (1..MaxDocs)}

(* os.listdir returns the names in no particular order; a folder listing   *)
(* that is not re-sorted can come out in any order, for instance this one. *)
UnsortedFileList(folder) == SortedDescending(DOMAIN folder)

(* file_list = sorted(os.listdir(...), key=int(stem)): the document        *)
(* numbers in ascending numerical order.                                   *)
FileList(folder) == SortedAscending(DOMAIN folder)

(* dict.setdefault(key, []).append(entry) for every key of dict_repr *)
AppendAll(index, dict_repr, entry) ==
    [key \in DOMAIN index \cup DOMAIN dict_repr |->
        IF key \in DOMAIN dict_repr
        THEN Append(IF key \in DOMAIN index THEN index[key] ELSE <<>>, entry[key])
        ELSE index[key]]

(* one iteration of create_inverted_idx's loop over file_list *)
ScanPlain(index, folder, doc) ==
    AppendAll(index, folder[doc], [key \in DOMAIN folder[doc] |-> doc])

(* one iteration of create_inverted_idx_2's loop over file_list *)
ScanTf(index, folder, doc) ==
    AppendAll(index, folder[doc], [key \in DOMAIN folder[doc] |-> <<doc, folder[doc][key]>>])

(* A weighting that takes the document frequency from the part of the      *)
(* posting list seen so far.                                               *)
WeighEntryStreaming(postings, i, n) ==
    <<postings[i][1], postings[i][2] * Log(n, i)>>

(* inverted_idx2[key][idx] =                                               *)
(*     (value[0], value[1] * math.log(docs_count / len(inverted_idx2[key]))) *)
WeighEntry(postings, i, n) ==
    <<postings[i][1], postings[i][2] * Log(n, Len(postings))>>

(* the inner loop over one key's posting list *)
WeighList(postings, n) ==
    [i \in 1..Len(postings) |-> WeighEntry(postings, i, n)]

RECURSIVE SumOver(_, _)
(* the sum of f over a finite set of arguments *)
SumOver(f, S) ==
    IF S = {} THEN 0
    ELSE LET x == CHOOSE y \in S : TRUE IN f[x] + SumOver(f, S \ {x})

(* the tfidf**2 that term's posting list adds to doc's list of squares *)
SquaresIn(postings, doc) ==
    LET own == {i \in 1..Len(postings) : postings[i][1] = doc}
    IN  SumOver([i \in own |-> postings[i][2] * postings[i][2]], own)

(* store_squared_tfidf_per_document: document -> sum of its squared tfidf, *)
(* one entry per document that occurs in a posting list.                   *)
SquaredTfidfPerDocument(index2) ==
    LET docs == UNION {{index2[t][i][1] : i \in 1..Len(index2[t])} : t \in DOMAIN index2}
    IN  [doc \in docs |->
            SumOver([t \in DOMAIN index2 |-> SquaresIn(index2[t], doc)], DOMAIN index2)]

-----------------------------------------------------------------------------
(* create_inverted_idx *)

ScanFile ==
    /\ pc = "create_inverted_idx"
    /\ pos <= Len(FileList(files))
    /\ inverted_idx' = ScanPlain(inverted_idx, files, FileList(files)[pos])
    /\ pos' = pos + 1
    /\ UNCHANGED <<files, pc, inverted_idx2, docs_count, todo, squared_tfidfs, searchVars, rankVars, refineVars>>

DumpInvertedIdx ==
    /\ pc = "create_inverted_idx"
    /\ pos > Len(FileList(files))
    /\ pc' = "create_inverted_idx_2"
    /\ pos' = 1
    /\ UNCHANGED <<files, inverted_idx, inverted_idx2, docs_count, todo, squared_tfidfs, searchVars, rankVars, refineVars>>

-----------------------------------------------------------------------------
(* create_inverted_idx_2 *)

ScanFile2 ==
    /\ pc = "create_inverted_idx_2"
    /\ pos <= Len(FileList(files))
    /\ docs_count' = docs_count + 1
    /\ inverted_idx2' = ScanTf(inverted_idx2, files, FileList(files)[pos])
    /\ pos' = pos + 1
    /\ UNCHANGED <<files, pc, inverted_idx, todo, squared_tfidfs, searchVars, rankVars, refineVars>>

EndScan2 ==
    /\ pc = "create_inverted_idx_2"
    /\ pos > Len(FileList(files))
    /\ pc' = "weigh"
    /\ todo' = DOMAIN inverted_idx2
    /\ UNCHANGED <<files, pos, inverted_idx, inverted_idx2, docs_count, squared_tfidfs, searchVars, rankVars, refineVars>>

(* one iteration of the loop over the keys of inverted_idx2 *)
WeighKey ==
    /\ pc = "weigh"
    /\ \E key \in todo :
        /\ inverted_idx2' = [inverted_idx2 EXCEPT ![key] = WeighList(inverted_idx2[key], docs_count)]
        /\ todo' = todo \ {key}
    /\ UNCHANGED <<files, pc, pos, inverted_idx, docs_count, squared_tfidfs, searchVars, rankVars, refineVars>>

DumpInvertedIdx2 ==
    /\ pc = "weigh"
    /\ todo = {}
    /\ pc' = "store_squared_tfidf_per_document"
    /\ UNCHANGED <<files, pos, inverted_idx, inverted_idx2, docs_count, todo, squared_tfidfs, searchVars, rankVars, refineVars>>

-----------------------------------------------------------------------------
(* store_squared_tfidf_per_document *)

StoreSquaredTfidf ==
    /\ pc = "store_squared_tfidf_per_document"
    /\ squared_tfidfs' = SquaredTfidfPerDocument(inverted_idx2)
    /\ pc' = "built"
    /\ UNCHANGED <<files, pos, inverted_idx, inverted_idx2, docs_count, todo, searchVars, rankVars, refineVars>>

-----------------------------------------------------------------------------
(* The builders run to their end on a folder: the pickled artifacts *)

RECURSIVE ScanPlainAll(_, _, _)
ScanPlainAll(index, folder, list) ==
    IF list = <<>> THEN index
    ELSE ScanPlainAll(ScanPlain(index, folder, Head(list)), folder, Tail(list))

RECURSIVE ScanTfAll(_, _, _)
ScanTfAll(index, folder, list) ==
    IF list = <<>> THEN index
    ELSE ScanTfAll(ScanTf(index, folder, Head(list)), folder, Tail(list))

CreateInvertedIdx(folder) == ScanPlainAll(<<>>, folder, FileList(folder))

CreateInvertedIdx2(folder) ==
    LET scanned == ScanTfAll(<<>>, folder, FileList(folder))
    IN  [key \in DOMAIN scanned |-> WeighList(scanned[key], Len(FileList(folder)))]

-----------------------------------------------------------------------------
(* encode_query *)

RECURSIVE EncodeKnown(_, _)
(* An encoding that leaves out the tokens the vocabulary lacks. *)
EncodeKnown(tokens, vocabulary) ==
    IF tokens = <<>> THEN [ok |-> TRUE, terms |-> <<>>]
    ELSE LET rest == EncodeKnown(Tail(tokens), vocabulary)
         IN  IF Head(tokens) \in DOMAIN vocabulary
             THEN [ok |-> TRUE, terms |-> <<vocabulary[Head(tokens)]>> \o rest.terms]
             ELSE rest

(* The return value is a list of term ids, or False: [ok |-> FALSE] here,  *)
(* with no term kept.                                                      *)
EncodeQuery(tokens, vocabulary) ==
    IF \A i \in 1..Len(tokens) : tokens[i] \in DOMAIN vocabulary
    THEN [ok |-> TRUE, terms |-> [i \in 1..Len(tokens) |-> vocabulary[tokens[i]]]]
    ELSE [ok |-> FALSE, terms |-> <<>>]

(* Python's "not encoded_query": true of False and of the empty list *)
Falsy(encoded) == ~encoded.ok \/ encoded.terms = <<>>

-----------------------------------------------------------------------------
(* The merge loop that search_engine and search_engine_2 share *)

Max(s) == CHOOSE x \in Range(s) : \A y \in Range(s) : x >= y

(* the tokens read before the comprehension over encoded_query meets one   *)
(* the index has no key for (all of them when there is none)               *)
ReadBeforeKeyError(terms, index) ==
    {terms[i] : i \in {j \in 1..Len(terms) : \A h \in 1..j : terms[h] \in DOMAIN index}}

MissingKey(terms, index) == \E i \in 1..Len(terms) : terms[i] \notin DOMAIN index

(* selected_lists = [inverted_idx[token] for token in encoded_query] *)
SelectedLists(terms, index) == [i \in 1..Len(terms) |-> index[terms[i]]]

(* all([k < m for k, m in zip(idx, lists_len)]) *)
AllInRange(cursors, lists) == \A j \in 1..Len(lists) : cursors[j] < Len(lists[j])

(* [docs[idx[list_num]] for list_num, docs in selected_lists2] *)
Heads(lists, cursors) == [j \in 1..Len(lists) |-> lists[j][cursors[j] + 1]]

(* [docs[idx[list_num]][0] for list_num, docs in selected_lists2] *)
Heads2(lists, cursors) == [j \in 1..Len(lists) |-> lists[j][cursors[j] + 1][1]]

(* The weights under the cursors with a repeated posting list counted once. *)
Weights2Distinct(lists, cursors) ==
    LET first == {j \in 1..Len(lists) : \A h \in 1..(j - 1) : lists[h] # lists[j]}
        RECURSIVE Kept(_)
        Kept(j) == IF j > Len(lists) THEN <<>>
                   ELSE (IF j \in first THEN <<lists[j][cursors[j] + 1][2]>> ELSE <<>>)
                        \o Kept(j + 1)
    IN  Kept(1)

(* [docs[idx[list_num]][1] for list_num, docs in selected_lists2] *)
Weights2(lists, cursors) == [j \in 1..Len(lists) |-> lists[j][cursors[j] + 1][2]]

(* all([docs[idx[list_num]] == max_num ...]) *)
AllAtMax(heads) == \A j \in 1..Len(heads) : heads[j] = Max(heads)

(* idx = [i+1 for i in idx] *)
AdvanceAll(cursors) == [j \in 1..Len(cursors) |-> cursors[j] + 1]

(* An advance that moves every cursor, those at the maximum too. *)
AdvanceEvery(cursors, heads) == [j \in 1..Len(cursors) |-> cursors[j] + 1]

(* An advance that moves no cursor. *)
AdvanceNone(cursors, heads) == cursors

(* the else branch: idx[j] += 1 for every list that is not at max_num *)
AdvanceBelowMax(cursors, heads) ==
    [j \in 1..Len(cursors) |-> IF heads[j] = Max(heads) THEN cursors[j] ELSE cursors[j] + 1]

(* dict[key] = value *)
Put(dict, key, value) ==
    [k \in DOMAIN dict \cup {key} |-> IF k = key THEN value ELSE dict[k]]

-----------------------------------------------------------------------------
(* search_engine *)

SearchEngineEmpty ==
    /\ pc = "search_engine"
    /\ Falsy(encoded_query)
    /\ result' = <<>>
    /\ pc' = "search_engine_returned"
    /\ UNCHANGED <<artifacts, rankVars, refineVars, query, encoded_query, selected_lists, idx, iters, docs_scores,
                   ranked, lookups, fault, called>>

SearchEngineKeyError ==
    /\ pc = "search_engine"
    /\ ~Falsy(encoded_query)
    /\ MissingKey(encoded_query.terms, inverted_idx)
    /\ lookups' = lookups \cup ReadBeforeKeyError(encoded_query.terms, inverted_idx)
    /\ fault' = "KeyError"
    /\ pc' = "crashed"
    /\ UNCHANGED <<artifacts, rankVars, refineVars, query, encoded_query, selected_lists, idx, iters, result,
                   docs_scores, ranked, called>>

SearchEngineSelect ==
    /\ pc = "search_engine"
    /\ ~Falsy(encoded_query)
    /\ ~MissingKey(encoded_query.terms, inverted_idx)
    /\ lookups' = lookups \cup Range(encoded_query.terms)
    /\ selected_lists' = SelectedLists(encoded_query.terms, inverted_idx)
    /\ idx' = [j \in 1..Len(encoded_query.terms) |-> 0]
    /\ iters' = 0
    /\ result' = <<>>
    /\ pc' = "merge"
    /\ UNCHANGED <<artifacts, rankVars, refineVars, query, encoded_query, docs_scores, ranked, fault, called>>

MergeMatch ==
    /\ pc = "merge"
    /\ AllInRange(idx, selected_lists)
    /\ AllAtMax(Heads(selected_lists, idx))
    /\ result' = Append(result, Max(Heads(selected_lists, idx)))
    /\ idx' = AdvanceAll(idx)
    /\ iters' = iters + 1
    /\ UNCHANGED <<artifacts, rankVars, refineVars, pc, query, encoded_query, selected_lists, docs_scores, ranked,
                   lookups, fault, called>>

MergeAdvance ==
    /\ pc = "merge"
    /\ AllInRange(idx, selected_lists)
    /\ ~AllAtMax(Heads(selected_lists, idx))
    /\ idx' = AdvanceBelowMax(idx, Heads(selected_lists, idx))
    /\ iters' = iters + 1
    /\ UNCHANGED <<artifacts, rankVars, refineVars, pc, query, encoded_query, selected_lists, result, docs_scores,
                   ranked, lookups, fault, called>>

MergeReturn ==
    /\ pc = "merge"
    /\ ~AllInRange(idx, selected_lists)
    /\ pc' = "search_engine_returned"
    /\ UNCHANGED <<artifacts, searchVars, rankVars, refineVars>>

-----------------------------------------------------------------------------
(* get_top_k *)

(* (v1, k1) < (v2, k2) on Python tuples: by the first component, then by   *)
(* the second                                                              *)
TupleLess(x, y) == Less(x[1], y[1]) \/ (x[1] = y[1] /\ x[2] < y[2])

RECURSIVE NSmallest(_, _)
(* heapq.nsmallest(k, heap): the first k of sorted(heap); [] for k <= 0 *)
NSmallest(k, heap) ==
    IF k <= 0 \/ heap = {} THEN <<>>
    ELSE LET least == CHOOSE x \in heap : \A y \in heap \ {x} : TupleLess(x, y)
         IN  <<least>> \o NSmallest(k - 1, heap \ {least})

(* the sign that get_top_k gives a value on its way into the heap and back *)
HeapSign(value) == Negated(value)

(* heap = [(-value, key) ...]; largest = heapq.nsmallest(k, heap);         *)
(* return [(key, -value) for value, key in largest]                        *)
GetTopK(dic, k) ==
    LET heap    == {<<HeapSign(dic[key]), key>> : key \in DOMAIN dic}
        largest == NSmallest(k, heap)
    IN  [i \in 1..Len(largest) |-> <<largest[i][2], HeapSign(largest[i][1])>>]

-----------------------------------------------------------------------------
(* compute_cosine_similarity *)

(* (math.sqrt(squared_tfidf_per_document[doc])) * (math.sqrt(len(encoded_query))), *)
(* in units of 1/LOG_SCALE; 0 exactly when the stored sum of squares is 0  *)
Denominator(squared, query_len) ==
    (Sqrt(squared) * Sqrt(query_len * LOG_SCALE * LOG_SCALE)) \div LOG_SCALE

(* the documents of docs_scores that the loop cannot score, and the        *)
(* exception the first of them raises (the loop follows the dict's         *)
(* insertion order, which the merge makes the ascending document order)    *)
Unscorable(scores, squared, query_len) ==
    {doc \in DOMAIN scores :
        doc \notin DOMAIN squared \/ Denominator(squared[doc], query_len) = 0}

CosineFault(scores, squared, query_len) ==
    LET bad == Unscorable(scores, squared, query_len)
    IN  IF bad = {} THEN "none"
        ELSE IF Head(SortedAscending(bad)) \notin DOMAIN squared THEN "KeyError"
        ELSE "ZeroDivisionError"

(* similarity_scores[doc] = docs_scores[doc] / (sqrt(...) * sqrt(...)) *)
ComputeCosineSimilarity(terms, scores, squared) ==
    [doc \in DOMAIN scores |->
        Float((scores[doc] * LOG_SCALE) \div Denominator(squared[doc], Len(terms)))]

-----------------------------------------------------------------------------
(* search_engine_2 *)

(* the k that __main__ passes *)
MainK == 5

SearchEngine2Empty ==
    /\ pc = "search_engine_2"
    /\ Falsy(encoded_query)
    /\ ranked' = <<>>
    /\ docs_scores' = <<>>
    /\ pc' = "search_engine_2_returned"
    /\ UNCHANGED <<artifacts, rankVars, refineVars, query, encoded_query, selected_lists, idx, iters, result,
                   lookups, fault, called>>

SearchEngine2KeyError ==
    /\ pc = "search_engine_2"
    /\ ~Falsy(encoded_query)
    /\ MissingKey(encoded_query.terms, inverted_idx2)
    /\ lookups' = lookups \cup ReadBeforeKeyError(encoded_query.terms, inverted_idx2)
    /\ fault' = "KeyError"
    /\ pc' = "crashed"
    /\ UNCHANGED <<artifacts, rankVars, refineVars, query, encoded_query, selected_lists, idx, iters, result,
                   docs_scores, ranked, called>>

SearchEngine2Select ==
    /\ pc = "search_engine_2"
    /\ ~Falsy(encoded_query)
    /\ ~MissingKey(encoded_query.terms, inverted_idx2)
    /\ lookups' = lookups \cup Range(encoded_query.terms)
    /\ selected_lists' = SelectedLists(encoded_query.terms, inverted_idx2)
    /\ idx' = [j \in 1..Len(encoded_query.terms) |-> 0]
    /\ iters' = 0
    /\ docs_scores' = <<>>
    /\ ranked' = <<>>
    /\ pc' = "merge_2"
    /\ UNCHANGED <<artifacts, rankVars, refineVars, query, encoded_query, result, fault, called>>

Merge2Match ==
    /\ pc = "merge_2"
    /\ AllInRange(idx, selected_lists)
    /\ AllAtMax(Heads2(selected_lists, idx))
    /\ docs_scores' = Put(docs_scores, Max(Heads2(selected_lists, idx)),
                          Sum(Weights2(selected_lists, idx)))
    /\ idx' = AdvanceAll(idx)
    /\ iters' = iters + 1
    /\ UNCHANGED <<artifacts, rankVars, refineVars, pc, query, encoded_query, selected_lists, result, ranked,
                   lookups, fault, called>>

Merge2Advance ==
    /\ pc = "merge_2"
    /\ AllInRange(idx, selected_lists)
    /\ ~AllAtMax(Heads2(selected_lists, idx))
    /\ idx' = AdvanceBelowMax(idx, Heads2(selected_lists, idx))
    /\ iters' = iters + 1
    /\ UNCHANGED <<artifacts, rankVars, refineVars, pc, query, encoded_query, selected_lists, result, docs_scores,
                   ranked, lookups, fault, called>>

Merge2Exit ==
    /\ pc = "merge_2"
    /\ ~AllInRange(idx, selected_lists)
    /\ pc' = "compute_cosine_similarity"
    /\ UNCHANGED <<artifacts, searchVars, rankVars, refineVars>>

(* compute_cosine_similarity raises on a document it cannot score *)
CosineRaises ==
    /\ pc = "compute_cosine_similarity"
    /\ CosineFault(docs_scores, squared_tfidfs, Len(encoded_query.terms)) # "none"
    /\ fault' = CosineFault(docs_scores, squared_tfidfs, Len(encoded_query.terms))
    /\ pc' = "crashed"
    /\ UNCHANGED <<artifacts, rankVars, refineVars, query, encoded_query, selected_lists, idx, iters, result,
                   docs_scores, ranked, lookups, called>>

(* all_scores = compute_cosine_similarity(encoded_query, docs_scores, ...) *)
CosineReturns ==
    /\ pc = "compute_cosine_similarity"
    /\ CosineFault(docs_scores, squared_tfidfs, Len(encoded_query.terms)) = "none"
    /\ all_scores' = ComputeCosineSimilarity(encoded_query.terms, docs_scores, squared_tfidfs)
    /\ pc' = "get_top_k"
    /\ UNCHANGED <<artifacts, top_k, refineVars, searchVars>>

(* return get_top_k(all_scores, k) *)
GetTopKReturns ==
    /\ pc = "get_top_k"
    /\ ranked' = GetTopK(all_scores, top_k)
    /\ pc' = "search_engine_2_returned"
    /\ UNCHANGED <<artifacts, rankVars, refineVars, query, encoded_query, selected_lists, idx,
                   iters, result, docs_scores, lookups, called, fault>>

-----------------------------------------------------------------------------
(* __main__: the query is read, preprocessed and encoded, then handed to   *)
(* search_engine and to search_engine_2                                    *)

Queries == UNION {[1..n -> Tokens] : n \in 0..MaxQueryLen}

ReadQuery ==
    /\ pc = "main"
    /\ \E tokens \in Queries :
          /\ query' = tokens
          /\ encoded_query' = EncodeQuery(tokens, Vocabulary)
    /\ pc' = "encoded"
    /\ UNCHANGED <<artifacts, rankVars, refineVars, selected_lists, idx, iters, result, docs_scores, ranked,
                   lookups, fault, called>>

(* print_search_engine_result(search_engine(encoded_query, inverted_idx)) *)
CallSearchEngine ==
    /\ pc = "encoded"
    /\ pc' = "search_engine"
    /\ called' = called \cup {"search_engine"}
    /\ UNCHANGED <<artifacts, rankVars, refineVars, query, encoded_query, selected_lists, idx, iters, result,
                   docs_scores, ranked, lookups, fault>>

(* search_engine_2(encoded_query, inverted_idx2, squared_tfidf_per_document, 5), *)
(* after search_engine as in __main__, or as a caller's first search       *)
CallSearchEngine2 ==
    /\ pc \in {"encoded", "search_engine_returned"}
    /\ pc' = "search_engine_2"
    /\ called' = called \cup {"search_engine_2"}
    /\ top_k' = MainK
    /\ UNCHANGED <<artifacts, all_scores, refineVars, query, encoded_query, selected_lists, idx, iters, result,
                   docs_scores, ranked, lookups, fault>>

-----------------------------------------------------------------------------
(* search_engine_3 *)

(* the k of search_engine_3's call of search_engine_2 *)
PlotK == 10

(* the k of search_engine_3's closing get_top_k *)
FinalK == 3

(* maps each additional field to its position in the .tsv files *)
field_to_idx ==
    ("booktitle" :> 0) @@ ("bookseries" :> 1) @@ ("bookauthors" :> 2) @@
    ("publishingdate" :> 8) @@ ("characters" :> 9) @@ ("setting" :> 10)

(* str.lower() on the words a line is made of *)
Lower(word) ==
    CASE word = "BookTitle" -> "booktitle"
      [] word = "Moby"      -> "moby"
      [] OTHER              -> word

(* The lines the user types, each as the parts that ":" separates: what    *)
(* info.split(':') makes of it.  One has no ":" and one names no field.    *)
InputLines ==
    {<<"end">>, <<"BookTitle", "Moby">>, <<"booktitle", "emma">>, <<"setting", "sea">>,
     <<"booktitle">>, <<"genre", "novel">>}

(* input(...).lower() followed by split(':') *)
LowerSplit(line) == [i \in 1..Len(line) |-> Lower(line[i])]

(* The third line of article_<doc>.tsv, split at tabs, each field          *)
(* tokenized: field position -> list of tokens.                            *)
AllFields(doc) ==
    [f \in 0..10 |->
        CASE f = 0  -> IF doc % 2 = 0 THEN <<"moby", "dick">> ELSE <<"emma">>
          [] f = 10 -> IF doc % 3 = 0 THEN <<"sea">> ELSE <<"land">>
          [] OTHER  -> <<>>]

(* item[1] in all_fields[field_to_idx[item[0]]] *)
Matches(item, all_fields) == item[2] \in Range(all_fields[field_to_idx[item[1]]])

(* A boost that adds one half, whatever the score. *)
BoostByHalf(total_score) == Plus(total_score, Float(LOG_SCALE \div 2))

(* total_score += total_score * 1/2 *)
Boost(total_score) == Plus(total_score, Half(total_score))

RECURSIVE Rescored(_, _, _)
(* for item in additional_info: if it matches, adjust the score *)
Rescored(total_score, items, all_fields) ==
    IF items = <<>> THEN total_score
    ELSE Rescored(IF Matches(Head(items), all_fields) THEN Boost(total_score)
                  ELSE total_score,
                  Tail(items), all_fields)

(* final_score after the loop over plot_result *)
FinalScore(plot, items) ==
    [doc \in {plot[i][1] : i \in 1..Len(plot)} |->
        LET i == CHOOSE h \in 1..Len(plot) : plot[h][1] = doc
        IN  Rescored(plot[i][2], items, AllFields(doc))]

(* item[1] of an accepted line that held no ":" *)
RescoreFault(plot, items) ==
    IF plot # <<>> /\ \E i \in 1..Len(items) : Len(items[i]) < 2
    THEN "IndexError" ELSE "none"

(* search_engine_3(encoded_query, inverted_idx2, squared_tfidf_per_document, *)
(* uncoded_query) entered: its first statement calls search_engine_2       *)
CallSearchEngine3 ==
    /\ pc = "encoded"
    /\ pc' = "search_engine_2"
    /\ called' = called \cup {"search_engine_3"}
    /\ top_k' = PlotK
    /\ UNCHANGED <<artifacts, all_scores, refineVars, query, encoded_query, selected_lists, idx,
                   iters, result, docs_scores, ranked, lookups, fault>>

(* plot_result = search_engine_2(...); additional_info = [] *)
PlotResult ==
    /\ pc = "search_engine_2_returned"
    /\ "search_engine_3" \in called
    /\ plot_result' = ranked
    /\ additional_info' = <<>>
    /\ pc' = "input"
    /\ UNCHANGED <<artifacts, rankVars, searchVars, final_score, refined>>

(* a line whose first part is a field name: additional_info.append(info) *)
InputAccepted ==
    /\ pc = "input"
    /\ Len(additional_info) < MaxInfo
    /\ \E line \in InputLines :
          LET info == LowerSplit(line)
          IN  /\ info # <<"end">>
              /\ info[1] \in DOMAIN field_to_idx
              /\ additional_info' = Append(additional_info, info)
    /\ UNCHANGED <<pc, artifacts, rankVars, searchVars, plot_result, final_score, refined>>

(* any other line: print('field not found, please try again') *)
InputRejected ==
    /\ pc = "input"
    /\ \E line \in InputLines :
          LET info == LowerSplit(line)
          IN  /\ info # <<"end">>
              /\ info[1] \notin DOMAIN field_to_idx
    /\ UNCHANGED vars

(* info == 'end': break *)
InputEnd ==
    /\ pc = "input"
    /\ \E line \in InputLines : LowerSplit(line) = <<"end">>
    /\ pc' = "rescore"
    /\ UNCHANGED <<artifacts, rankVars, searchVars, refineVars>>

(* the scoring loop raises on an accepted line without a value *)
RescoreRaises ==
    /\ pc = "rescore"
    /\ RescoreFault(plot_result, additional_info) # "none"
    /\ fault' = RescoreFault(plot_result, additional_info)
    /\ pc' = "crashed"
    /\ UNCHANGED <<artifacts, rankVars, refineVars, query, encoded_query, selected_lists, idx, iters,
                   result, docs_scores, ranked, lookups, called>>

(* the scoring loop, then return get_top_k(final_score, 3) *)
RescoreReturns ==
    /\ pc = "rescore"
    /\ RescoreFault(plot_result, additional_info) = "none"
    /\ final_score' = FinalScore(plot_result, additional_info)
    /\ refined' = GetTopK(FinalScore(plot_result, additional_info), FinalK)
    /\ pc' = "search_engine_3_returned"
    /\ UNCHANGED <<artifacts, rankVars, searchVars, plot_result, additional_info>>

-----------------------------------------------------------------------------
(* search_engine_3 has not been called *)
RefineIdle ==
    /\ plot_result = <<>>
    /\ additional_info = <<>>
    /\ final_score = <<>>
    /\ refined = <<>>

(* No search is running *)
SearchIdle ==
    /\ query = <<>>
    /\ encoded_query = [ok |-> TRUE, terms |-> <<>>]
    /\ selected_lists = <<>>
    /\ idx = <<>>
    /\ iters = 0
    /\ result = <<>>
    /\ docs_scores = <<>>
    /\ ranked = <<>>
    /\ lookups = {}
    /\ called = {}
    /\ fault = "none"
    /\ top_k = 0
    /\ all_scores = <<>>
    /\ RefineIdle

Init ==
    /\ files \in Folders
    /\ pc = "create_inverted_idx"
    /\ pos = 1
    /\ inverted_idx = <<>>
    /\ inverted_idx2 = <<>>
    /\ docs_count = 0
    /\ todo = {}
    /\ squared_tfidfs = <<>>
    /\ SearchIdle

Next ==
    \/ ScanFile
    \/ DumpInvertedIdx
    \/ ScanFile2
    \/ EndScan2
    \/ WeighKey
    \/ DumpInvertedIdx2
    \/ StoreSquaredTfidf

Spec == Init /\ [][Next]_vars

-----------------------------------------------------------------------------
(* The searches on the artifacts of a built corpus *)

(* term frequencies of the corpora that are searched *)
SearchTf(doc, term) == 1 + ((doc + term) % MaxTf)

SearchFolders ==
    UNION {{[doc \in S |-> [term \in held[doc] |-> SearchTf(doc, term)]] :
                held \in [S -> SUBSET Terms]} : S \in SUBSET (1..MaxDocs)}

(* the state the builders leave behind on folder *)
Built(folder) ==
    /\ files = folder
    /\ pos = Len(FileList(folder)) + 1
    /\ inverted_idx = CreateInvertedIdx(folder)
    /\ inverted_idx2 = CreateInvertedIdx2(folder)
    /\ docs_count = Len(FileList(folder))
    /\ todo = {}
    /\ squared_tfidfs = SquaredTfidfPerDocument(CreateInvertedIdx2(folder))

InitSearch ==
    /\ \E folder \in SearchFolders : Built(folder)
    /\ pc = "main"
    /\ SearchIdle

NextSearch ==
    \/ ReadQuery
    \/ CallSearchEngine
    \/ SearchEngineEmpty
    \/ SearchEngineKeyError
    \/ SearchEngineSelect
    \/ MergeMatch
    \/ MergeAdvance
    \/ MergeReturn
    \/ CallSearchEngine2
    \/ SearchEngine2Empty
    \/ SearchEngine2KeyError
    \/ SearchEngine2Select
    \/ Merge2Match
    \/ Merge2Advance
    \/ Merge2Exit
    \/ CosineRaises
    \/ CosineReturns
    \/ GetTopKReturns

SpecSearch == InitSearch /\ [][NextSearch]_vars

-----------------------------------------------------------------------------
(* The two engines on any posting lists, sorted or not: list j is the      *)
(* index's entry for term j, and the query names each term once.           *)

ListsUpTo(len) == UNION {[1..n -> 1..MaxListDoc] : n \in 0..len}

RECURSIVE PostingLists(_, _)
(* the sequences of n lists that hold at most budget entries together *)
PostingLists(n, budget) ==
    IF n = 0 THEN {<<>>}
    ELSE UNION {{<<list>> \o rest : rest \in PostingLists(n - 1, budget - Len(list))} :
                    list \in ListsUpTo(budget)}

(* list j with a weight beside each document *)
Weighted(list, j) == [i \in 1..Len(list) |-> <<list[i], LOG_SCALE * j + i>>]

InitMerge ==
    /\ \E n \in 0..MaxLists : \E lists \in PostingLists(n, MaxPostings) :
          /\ inverted_idx = lists
          /\ inverted_idx2 = [j \in 1..n |-> Weighted(lists[j], j)]
          /\ encoded_query = [ok |-> TRUE, terms |-> [j \in 1..n |-> j]]
    /\ \E engine \in {"search_engine", "search_engine_2"} :
          pc = engine /\ called = {engine}
    /\ files = <<>>
    /\ pos = 1
    /\ docs_count = 0
    /\ todo = {}
    /\ squared_tfidfs = <<>>
    /\ query = <<>>
    /\ selected_lists = <<>>
    /\ idx = <<>>
    /\ iters = 0
    /\ result = <<>>
    /\ docs_scores = <<>>
    /\ ranked = <<>>
    /\ lookups = {}
    /\ fault = "none"
    /\ top_k = MainK
    /\ all_scores = <<>>
    /\ RefineIdle

NextMerge ==
    \/ SearchEngineEmpty
    \/ SearchEngineSelect
    \/ MergeMatch
    \/ MergeAdvance
    \/ MergeReturn
    \/ SearchEngine2Empty
    \/ SearchEngine2Select
    \/ Merge2Match
    \/ Merge2Advance
    \/ Merge2Exit

SpecMerge == InitMerge /\ [][NextMerge]_vars

(* the interpreter goes on executing the loop *)
SpecMergeFair == SpecMerge /\ WF_vars(NextMerge)

-----------------------------------------------------------------------------
(* search_engine_3 on corpora large enough for more than ten candidates    *)

RefineHeld(doc, shift) ==
    {term \in Terms : \/ term = 1 /\ (doc + shift) % 5 # 0
                      \/ term = 2 /\ (doc + shift) % 3 # 0}

RefineTf(doc, term) == IF term = 1 THEN 1 + (doc % 2) ELSE 1

RefineFolders ==
    {[doc \in 1..n |-> [term \in RefineHeld(doc, shift) |-> RefineTf(doc, term)]] :
        n \in 0..MaxRefineDocs, shift \in 0..2}

InitRefine ==
    /\ \E folder \in RefineFolders : Built(folder)
    /\ pc = "main"
    /\ SearchIdle

NextRefine ==
    \/ ReadQuery
    \/ CallSearchEngine3
    \/ SearchEngine2Empty
    \/ SearchEngine2KeyError
    \/ SearchEngine2Select
    \/ Merge2Match
    \/ Merge2Advance
    \/ Merge2Exit
    \/ CosineRaises
    \/ CosineReturns
    \/ GetTopKReturns
    \/ PlotResult
    \/ InputAccepted
    \/ InputRejected
    \/ InputEnd
    \/ RescoreRaises
    \/ RescoreReturns

SpecRefine == InitRefine /\ [][NextRefine]_vars

-----------------------------------------------------------------------------
(* get_top_k on any dict of at most MaxScored documents and any k          *)

(* the scores j / 2^e with |j| <= MaxScore and e <= 1 *)
ScoreValues == {Reduced([m |-> j, e |-> e]) : j \in (0 - MaxScore)..MaxScore, e \in 0..1}

ScoreDicts == UNION {[docs -> ScoreValues] : docs \in SUBSET (1..MaxScored)}

InitTopK ==
    /\ pc = "get_top_k"
    /\ all_scores \in ScoreDicts
    /\ top_k \in 0..MaxK
    /\ called = {"search_engine_2"}
    /\ files = <<>>
    /\ pos = 1
    /\ inverted_idx = <<>>
    /\ inverted_idx2 = <<>>
    /\ docs_count = 0
    /\ todo = {}
    /\ squared_tfidfs = <<>>
    /\ query = <<>>
    /\ encoded_query = [ok |-> TRUE, terms |-> <<>>]
    /\ selected_lists = <<>>
    /\ idx = <<>>
    /\ iters = 0
    /\ result = <<>>
    /\ docs_scores = <<>>
    /\ ranked = <<>>
    /\ lookups = {}
    /\ fault = "none"
    /\ RefineIdle

NextTopK == GetTopKReturns

SpecTopK == InitTopK /\ [][NextTopK]_vars

-----------------------------------------------------------------------------
(* Properties of the builders *)

StrictlyAscending(s) == \A i \in 1..(Len(s) - 1) : s[i] < s[i + 1]

DocsOf(postings) == [i \in 1..Len(postings) |-> postings[i][1]]

IsPrefix(s, t) == Len(s) <= Len(t) /\ \A i \in 1..Len(s) : s[i] = t[i]

ScanDone == pc \in {"weigh", "store_squared_tfidf_per_document", "built"}

(* C5: at every point of the two builders' scans of the corpus (documents  *)
(* in ascending number order), every posting list of the plain and of the  *)
(* weighted index is strictly ascending by document, hence duplicate-free; *)
(* the weighted list of a term holds the documents of the plain list up to *)
(* the file reached, and exactly the plain list's documents once both      *)
(* scans are over.                                                         *)
C5_PostingListsAscending ==
    /\ \A t \in DOMAIN inverted_idx : StrictlyAscending(inverted_idx[t])
    /\ \A t \in DOMAIN inverted_idx2 : StrictlyAscending(DocsOf(inverted_idx2[t]))
    /\ (pc = "create_inverted_idx_2" \/ ScanDone) =>
          /\ DOMAIN inverted_idx2 \subseteq DOMAIN inverted_idx
          /\ \A t \in DOMAIN inverted_idx2 :
                IsPrefix(DocsOf(inverted_idx2[t]), inverted_idx[t])
    /\ ScanDone =>
          /\ DOMAIN inverted_idx2 = DOMAIN inverted_idx
          /\ \A t \in DOMAIN inverted_idx : DocsOf(inverted_idx2[t]) = inverted_idx[t]

(* both indexes are complete and hold a term that three documents contain *)
C5_Witness ==
    /\ pc = "built"
    /\ \E t \in DOMAIN inverted_idx :
          /\ Len(inverted_idx[t]) >= 3
          /\ t \in DOMAIN inverted_idx2
          /\ Len(inverted_idx2[t]) >= 3

(* the corpus's own counts *)
TotalDocuments == Cardinality(DOMAIN files)

DocumentFrequency(t) == Cardinality({d \in DOMAIN files : t \in DOMAIN files[d]})

(* C6: once the weighting loop has visited term t, every entry (d, w) of   *)
(* t's weighted posting list has w = tf(t, d) * ln(N / df(t)), N the       *)
(* number of documents of the whole corpus and df(t) the number of         *)
(* documents holding t (the list's final length), the same for every entry *)
(* of the list; a term that all N documents hold weighs 0 everywhere.      *)
C6_WeightIsTfTimesFinalIdf ==
    ScanDone =>
        \A t \in DOMAIN inverted_idx2 \ todo :
            /\ Len(inverted_idx2[t]) = DocumentFrequency(t)
            /\ \A i \in 1..Len(inverted_idx2[t]) :
                  LET d == inverted_idx2[t][i][1]
                      w == inverted_idx2[t][i][2]
                  IN  /\ d \in DOMAIN files
                      /\ t \in DOMAIN files[d]
                      /\ w = files[d][t] * Log(TotalDocuments, DocumentFrequency(t))
                      /\ DocumentFrequency(t) = TotalDocuments => w = 0

(* a corpus of three documents, one term in all of them (weight 0) and     *)
(* another in two of them, once with a term frequency above 1              *)
C6_Witness ==
    /\ pc = "built"
    /\ TotalDocuments = 3
    /\ \E t, u \in DOMAIN inverted_idx2 :
          /\ DocumentFrequency(t) = 3
          /\ DocumentFrequency(u) = 2
          /\ inverted_idx2[t][2][2] = 0
          /\ inverted_idx2[u][2][2] > 0
          /\ \E i \in 1..2 : files[inverted_idx2[u][i][1]][u] > 1

-----------------------------------------------------------------------------
(* Properties of the searches *)

Terms1 == encoded_query.terms

(* the documents that every posting list named by the query holds *)
InEveryList(docs) ==
    {d \in UNION {Range(docs[t]) : t \in Range(Terms1)} :
        \A j \in 1..Len(Terms1) : d \in Range(docs[Terms1[j]])}

(* the documents of each plain posting list *)
PlainDocs == inverted_idx

(* the documents of each weighted posting list *)
WeightedDocs == [t \in DOMAIN inverted_idx2 |-> DocsOf(inverted_idx2[t])]

(* C1: search_engine, called with a query of at least one term whose       *)
(* posting lists are strictly ascending, returns the intersection of the   *)
(* lists' document sets as a strictly ascending sequence, each common      *)
(* document once and no other; the empty sequence when one of the lists is *)
(* empty, and the list itself when the query has one term.                 *)
C1_ResultIsIntersection ==
    (/\ pc = "search_engine_returned"
     /\ Terms1 # <<>>
     /\ \A j \in 1..Len(Terms1) : StrictlyAscending(inverted_idx[Terms1[j]])) =>
        /\ StrictlyAscending(result)
        /\ Range(result) = InEveryList(PlainDocs)
        /\ (\E j \in 1..Len(Terms1) : inverted_idx[Terms1[j]] = <<>>) => result = <<>>
        /\ Len(Terms1) = 1 => result = inverted_idx[Terms1[1]]

(* two ascending lists that differ, with a document in common *)
C1_Witness ==
    /\ pc = "search_engine_returned"
    /\ Len(Terms1) = 2
    /\ \A j \in 1..2 : StrictlyAscending(inverted_idx[Terms1[j]])
    /\ Len(inverted_idx[Terms1[1]]) = 2
    /\ Len(inverted_idx[Terms1[2]]) = 1
    /\ result # <<>>
    /\ iters >= 2

QueryRead == pc # "main"

(* C2: a query with a token the vocabulary lacks is encoded as a failure,  *)
(* none of its tokens kept; and search_engine and search_engine_2, called  *)
(* with a failed encoding or with one of no terms, raise nothing, read no  *)
(* posting list and return the empty sequence.                             *)
C2_FailedEncodingGivesEmpty ==
    /\ (QueryRead /\ \E i \in 1..Len(query) : query[i] \notin DOMAIN Vocabulary) =>
          (~encoded_query.ok /\ encoded_query.terms = <<>>)
    /\ (QueryRead /\ \A i \in 1..Len(query) : query[i] \in DOMAIN Vocabulary) =>
          (/\ encoded_query.ok
           /\ Len(encoded_query.terms) = Len(query)
           /\ \A i \in 1..Len(query) : encoded_query.terms[i] = Vocabulary[query[i]])
    /\ (QueryRead /\ (~encoded_query.ok \/ encoded_query.terms = <<>>)) =>
          /\ fault = "none"
          /\ lookups = {}
          /\ pc \in {"encoded", "search_engine", "search_engine_returned",
                     "search_engine_2", "search_engine_2_returned"}
          /\ result = <<>>
          /\ ranked = <<>>

(* both engines have returned on a query whose second token is unknown *)
C2_Witness ==
    /\ pc = "search_engine_2_returned"
    /\ called = {"search_engine", "search_engine_2"}
    /\ Len(query) = 2
    /\ query[1] \in DOMAIN Vocabulary
    /\ query[2] \notin DOMAIN Vocabulary

(* C4: the ranked search never ends in a division by zero nor in a missing *)
(* key of the document norms, and returns no document whose stored norm is *)
(* zero or missing.                                                        *)
C4_ZeroNormExcluded ==
    /\ fault # "ZeroDivisionError"
    /\ fault = "KeyError" => \E i \in 1..Len(Terms1) : Terms1[i] \notin DOMAIN inverted_idx2
    /\ pc = "search_engine_2_returned" =>
          \A i \in 1..Len(ranked) :
              /\ ranked[i][1] \in DOMAIN squared_tfidfs
              /\ squared_tfidfs[ranked[i][1]] # 0

(* the terms of the corpus *)
TermsSeen == UNION {DOMAIN files[d] : d \in DOMAIN files}

(* C7: the keys of both indexes are the terms seen in the corpus, and a    *)
(* search whose encoded query names a term without an entry raises nothing *)
(* and returns the empty result.                                           *)
C7_MissingTermGivesEmpty ==
    /\ DOMAIN inverted_idx = TermsSeen
    /\ DOMAIN inverted_idx2 = TermsSeen
    /\ (QueryRead /\ \E i \in 1..Len(Terms1) : Terms1[i] \notin DOMAIN inverted_idx) =>
          /\ fault = "none"
          /\ pc # "crashed"
          /\ result = <<>>
          /\ ranked = <<>>

(* the weight of document d in term t's weighted posting list *)
WeightIn(t, d) ==
    LET i == CHOOSE h \in 1..Len(inverted_idx2[t]) : inverted_idx2[t][h][1] = d
    IN  inverted_idx2[t][i][2]

Merge2Over == pc \in {"compute_cosine_similarity", "get_top_k", "search_engine_2_returned"}

(* C9: when the weighted merge of search_engine_2 is over, the documents   *)
(* it has scored are the documents that every queried posting list holds,  *)
(* the very documents search_engine returns for the query; each score is   *)
(* the sum, over the occurrences of terms in the query, of the document's  *)
(* weight in the term's list; and every document search_engine_2 returns   *)
(* is among them.                                                          *)
C9_WeightedMergeMatchesPlain ==
    /\ (Merge2Over /\ ~Falsy(encoded_query)) =>
          /\ DOMAIN docs_scores = InEveryList(WeightedDocs)
          /\ DOMAIN docs_scores = InEveryList(PlainDocs)
          /\ "search_engine" \in called => DOMAIN docs_scores = Range(result)
          /\ \A d \in DOMAIN docs_scores :
                docs_scores[d] =
                    SumOver([j \in 1..Len(Terms1) |-> WeightIn(Terms1[j], d)], 1..Len(Terms1))
    /\ pc = "search_engine_2_returned" =>
          /\ \A i \in 1..Len(ranked) : ranked[i][1] \in DOMAIN docs_scores
          /\ "search_engine" \in called =>
                \A i \in 1..Len(ranked) : ranked[i][1] \in Range(result)

(* both engines have returned on a query that names one term twice, with a *)
(* document of positive accumulated score and one that was skipped         *)
C9_Witness ==
    /\ pc = "search_engine_2_returned"
    /\ called = {"search_engine", "search_engine_2"}
    /\ Len(Terms1) = 2
    /\ Terms1[1] = Terms1[2]
    /\ ranked # <<>>
    /\ \E d \in DOMAIN docs_scores : docs_scores[d] > 0
    /\ Cardinality(DOMAIN docs_scores) < Cardinality(DOMAIN files)

InMerge == pc \in {"merge", "merge_2"}

LoopOver == pc \in {"search_engine_returned", "search_engine_2_returned",
                    "compute_cosine_similarity"}

(* the document under cursor j of the running merge *)
DocUnder(j) ==
    IF pc = "merge" THEN selected_lists[j][idx[j] + 1] ELSE selected_lists[j][idx[j] + 1][1]

Cursors == 1..Len(selected_lists)

CursorsInside ==
    InMerge =>
        /\ Len(idx) = Len(selected_lists)
        /\ \A j \in Cursors : 0 <= idx[j] /\ idx[j] <= Len(selected_lists[j])
        /\ iters <= SumOver(idx, Cursors)
        /\ iters <= SumOver([j \in Cursors |-> Len(selected_lists[j])], Cursors)

(* what a step taken inside the loop does *)
LoopStep ==
    InMerge =>
        IF \A j \in Cursors : idx[j] < Len(selected_lists[j])
        THEN LET top == CHOOSE m \in {DocUnder(j) : j \in Cursors} :
                            \A j \in Cursors : DocUnder(j) <= m
             IN  /\ InMerge'
                 /\ iters' = iters + 1
                 /\ selected_lists' = selected_lists
                 /\ IF \A j \in Cursors : DocUnder(j) = top
                    THEN \A j \in Cursors : idx'[j] = idx[j] + 1
                    ELSE /\ \E j \in Cursors : DocUnder(j) < top /\ idx'[j] = idx[j] + 1
                         /\ \A j \in Cursors :
                               idx'[j] = IF DocUnder(j) < top THEN idx[j] + 1 ELSE idx[j]
        ELSE /\ LoopOver'
             /\ idx' = idx
             /\ iters' = iters

(* C10: the merge loop of search_engine and of search_engine_2 terminates  *)
(* on any finite posting lists, sorted or not.  Every iteration starts     *)
(* with all cursors inside their lists and either moves all of them by one *)
(* (a match) or moves by one exactly those whose document is below the     *)
(* current maximum, at least one; no cursor moves back or passes the end   *)
(* of its list; a cursor at the end of its list ends the loop at the next  *)
(* step; the iterations number at most the sum of the list lengths; and    *)
(* the loop is eventually over.                                            *)
C10_MergeTerminates ==
    /\ []CursorsInside
    /\ [][LoopStep]_vars
    /\ <>LoopOver

(* a merge of two lists, one of them not ascending, over after at least    *)
(* two iterations of which one moved a single cursor                       *)
C10_Witness ==
    /\ LoopOver
    /\ Len(selected_lists) = 2
    /\ \E j \in 1..2 : Len(selected_lists[j]) = 2 /\ ~(idx[j] = 0) /\
          (IF pc = "search_engine_returned"
           THEN selected_lists[j][1] >= selected_lists[j][2]
           ELSE selected_lists[j][1][1] >= selected_lists[j][2][1])
    /\ iters >= 2
    /\ idx[1] # idx[2]

-----------------------------------------------------------------------------
(* Properties of get_top_k *)

Min(a, b) == IF a <= b THEN a ELSE b

(* C3: get_top_k(dic, k) returns min(k, |dic|) pairs (document, score),    *)
(* each a distinct entry of dic with its own score, in non-increasing      *)
(* order of score, and no entry left out has a score above one returned:   *)
(* the first k of a full descending sort by score.  k = 0 gives the empty  *)
(* list and k >= |dic| gives every entry.                                  *)
C3_TopKLargestDescending ==
    pc = "search_engine_2_returned" /\ fault = "none" /\ top_k >= 0 =>
        /\ Len(ranked) = Min(top_k, Cardinality(DOMAIN all_scores))
        /\ \A i \in 1..Len(ranked) :
              /\ ranked[i][1] \in DOMAIN all_scores
              /\ ranked[i][2] = all_scores[ranked[i][1]]
        /\ \A i, j \in 1..Len(ranked) : i < j =>
              /\ ranked[i][1] # ranked[j][1]
              /\ ~Less(ranked[i][2], ranked[j][2])
        /\ \A doc \in DOMAIN all_scores \ {ranked[i][1] : i \in 1..Len(ranked)} :
              \A i \in 1..Len(ranked) : ~Less(ranked[i][2], all_scores[doc])
        /\ (top_k = 0 => ranked = <<>>)
        /\ (top_k >= Cardinality(DOMAIN all_scores) =>
               {ranked[i][1] : i \in 1..Len(ranked)} = DOMAIN all_scores)

(* two of three documents returned, the higher score first, the lowest     *)
(* score left out                                                          *)
C3_Witness ==
    /\ pc = "search_engine_2_returned"
    /\ top_k = 2
    /\ Cardinality(DOMAIN all_scores) = 3
    /\ Len(ranked) = 2
    /\ Less(ranked[2][2], ranked[1][2])
    /\ \E doc \in DOMAIN all_scores : Less(all_scores[doc], ranked[2][2])

-----------------------------------------------------------------------------
(* Properties of search_engine_3 *)

RECURSIVE Pow3(_)
Pow3(n) == IF n = 0 THEN 1 ELSE 3 * Pow3(n - 1)

(* score * 1.5^n *)
TimesOneAndAHalfTo(score, n) == Reduced([m |-> score.m * Pow3(n), e |-> score.e + n])

(* how many of the accepted criteria match the document's fields *)
MatchCount(doc) ==
    Cardinality({i \in 1..Len(additional_info) : Matches(additional_info[i], AllFields(doc))})

Candidates == {plot_result[i][1] : i \in 1..Len(plot_result)}

(* C8: when search_engine_3 returns, every candidate of the top 10 of      *)
(* search_engine_2, of cosine score s and with m of the accepted criteria  *)
(* matching its fields, has the adjusted score s * 1.5^m (a score of 1.0   *)
(* becomes 1.5 for m = 1 and 2.25 for m = 2, and stays s for m = 0), and   *)
(* the value returned is the top 3 of the adjusted scores: at most 3       *)
(* entries, each a distinct candidate with its adjusted score, in          *)
(* descending order, none left out scoring above one returned.  The        *)
(* rescoring raises only on an accepted line that holds a field name and   *)
(* no value.                                                               *)
C8_RefinedScoreAndTopThree ==
    /\ fault = "IndexError" =>
          \E i \in 1..Len(additional_info) : Len(additional_info[i]) < 2
    /\ pc = "search_engine_3_returned" =>
        /\ plot_result = ranked
        /\ Len(plot_result) <= 10
        /\ DOMAIN final_score = Candidates
        /\ \A i \in 1..Len(plot_result) :
              LET doc == plot_result[i][1]
                  s   == plot_result[i][2]
                  n   == MatchCount(doc)
              IN  /\ final_score[doc] = TimesOneAndAHalfTo(s, n)
                  /\ (n = 0 => final_score[doc] = s)
                  /\ (s = Float(LOG_SCALE) /\ n = 1 =>
                         final_score[doc] = Float((15 * LOG_SCALE) \div 10))
                  /\ (s = Float(LOG_SCALE) /\ n = 2 =>
                         final_score[doc] = Float((225 * LOG_SCALE) \div 100))
        /\ Len(refined) = Min(3, Len(plot_result))
        /\ \A i \in 1..Len(refined) :
              /\ refined[i][1] \in Candidates
              /\ refined[i][2] = final_score[refined[i][1]]
        /\ \A i, j \in 1..Len(refined) : i < j =>
              /\ refined[i][1] # refined[j][1]
              /\ ~Less(refined[i][2], refined[j][2])
        /\ \A doc \in Candidates \ {refined[i][1] : i \in 1..Len(refined)} :
              \A i \in 1..Len(refined) : ~Less(refined[i][2], final_score[doc])

(* search_engine_3 returned three of ten candidates that search_engine_2   *)
(* cut from more than ten; one candidate of cosine score 1.0 matched two   *)
(* criteria and scores 2.25, and one matched none                          *)
C8_Witness ==
    /\ pc = "search_engine_3_returned"
    /\ Cardinality(DOMAIN all_scores) > 10
    /\ Len(plot_result) = 10
    /\ Len(refined) = 3
    /\ Len(additional_info) = 2
    /\ \E doc \in Candidates :
          /\ MatchCount(doc) = 2
          /\ all_scores[doc] = Float(LOG_SCALE)
          /\ final_score[doc] = Float((225 * LOG_SCALE) \div 100)
    /\ \E doc \in Candidates : MatchCount(doc) = 0
    /\ \E doc \in Candidates : MatchCount(doc) = 1 /\ all_scores[doc] # Float(LOG_SCALE)

=============================================================================
